---------------------------- MODULE Spec2Model ----------------------------
(* A model of the pull-request review bot (src/unnamed/part_001):          *)
(* the phrase extraction and line matching of mapCommentsToDiff, the       *)
(* review payloads of submitReview / approvePullRequest, the review cache  *)
(* file, and the entry points (full cycle, collect, post, approve).        *)
(* Text is a sequence of one-character strings, so that trimming, case     *)
(* folding, substring search and the phrase regex are computed, not        *)
(* assumed.  The driver of src/unnamed/part_000, two runs of main that     *)
(* overlap, and the todo server of src/server.js have sections of their    *)
(* own at the end.                                                         *)
EXTENDS Integers, Sequences, FiniteSets, TLC

(***************************************************************************)
(* Bounds of the model                                                     *)
(***************************************************************************)
\* number of entries (file headers, hunk headers, changes) of a diff
MaxDiffLines == 4
\* number of annotations the LLM answer of the matcher specification holds
MaxAnnotations == 2

(***************************************************************************)
(* Text primitives (JavaScript String methods)                             *)
(***************************************************************************)
UpperChars ==
  <<"A","B","C","D","E","F","G","H","I","J","K","L","M",
    "N","O","P","Q","R","S","T","U","V","W","X","Y","Z">>
LowerChars ==
  <<"a","b","c","d","e","f","g","h","i","j","k","l","m",
    "n","o","p","q","r","s","t","u","v","w","x","y","z">>
DigitChars == {"0","1","2","3","4","5","6","7","8","9"}
SpaceChars == {" ", "\t", "\n"}

Range(s) == {s[i] : i \in 1..Len(s)}

\* String.prototype.toLowerCase, one character
toLowerChar(c) ==
  IF \E i \in 1..Len(UpperChars) : UpperChars[i] = c
  THEN LowerChars[CHOOSE i \in 1..Len(UpperChars) : UpperChars[i] = c]
  ELSE c

\* String.prototype.toLowerCase
toLowerCase(s) == [i \in 1..Len(s) |-> toLowerChar(s[i])]

\* String.prototype.trim: whitespace removed at both ends
trim(s) ==
  LET ink == {i \in 1..Len(s) : s[i] \notin SpaceChars}
  IN  IF ink = {} THEN <<>>
      ELSE LET lo == CHOOSE i \in ink : \A j \in ink : i <= j
               hi == CHOOSE i \in ink : \A j \in ink : j <= i
           IN  SubSeq(s, lo, hi)

\* sub occurs in s at position p (1-based)
occursAt(s, sub, p) ==
  /\ p >= 1
  /\ p + Len(sub) - 1 <= Len(s)
  /\ \A k \in 1..Len(sub) : s[p + k - 1] = sub[k]

\* String.prototype.includes
includes(s, sub) == \E p \in 1..(Len(s) + 1) : occursAt(s, sub, p)

\* String.prototype.replace with a string pattern: the first occurrence only
replaceFirst(s, pat, by) ==
  IF ~includes(s, pat) THEN s
  ELSE LET p == CHOOSE q \in 1..(Len(s) + 1) :
                  /\ occursAt(s, pat, q)
                  /\ \A r \in 1..(q - 1) : ~occursAt(s, pat, r)
       IN  SubSeq(s, 1, p - 1) \o by \o SubSeq(s, p + Len(pat), Len(s))

\* String.prototype.slice(0, n)
sliceTo(s, n) == SubSeq(s, 1, IF Len(s) < n THEN Len(s) ELSE n)

(***************************************************************************)
(* The phrase regex of mapCommentsToDiff                                   *)
(*   ([a-zA-Z0-9_\.]+\([^)]+\))|([a-zA-Z0-9_]+\.[a-zA-Z0-9_]+)|            *)
(*   ([a-zA-Z0-9_]+\s*===\s*[^\s]+)            with the g flag             *)
(* A character class is [neg, set]; quantifiers are greedy.  In each       *)
(* alternative the character after a run is outside the run's class, so    *)
(* the maximal run is the only length at which the rest can match.         *)
(***************************************************************************)
WordChars == Range(UpperChars) \cup Range(LowerChars) \cup DigitChars \cup {"_"}
clsWord == [neg |-> FALSE, set |-> WordChars]
clsWordDot == [neg |-> FALSE, set |-> WordChars \cup {"."}]
clsNotParen == [neg |-> TRUE, set |-> {")"}]
clsSpace == [neg |-> FALSE, set |-> SpaceChars]
clsNotSpace == [neg |-> TRUE, set |-> SpaceChars]

inClass(c, cls) == IF cls.neg THEN c \notin cls.set ELSE c \in cls.set

\* the position after the longest run of cls characters that starts at p
runEnd(s, p, cls) ==
  CHOOSE e \in p..(Len(s) + 1) :
    /\ \A k \in p..(e - 1) : inClass(s[k], cls)
    /\ e = Len(s) + 1 \/ ~inClass(s[e], cls)

charAt(s, p) == IF p >= 1 /\ p <= Len(s) THEN s[p] ELSE ""

\* each alternative: the position after the match that starts at p, 0 if none
matchCall(s, p) ==
  LET e1 == runEnd(s, p, clsWordDot)
      e2 == runEnd(s, e1 + 1, clsNotParen)
  IN  IF e1 > p /\ charAt(s, e1) = "(" /\ e2 > e1 + 1 /\ charAt(s, e2) = ")"
      THEN e2 + 1 ELSE 0

matchMember(s, p) ==
  LET e1 == runEnd(s, p, clsWord)
      e2 == runEnd(s, e1 + 1, clsWord)
  IN  IF e1 > p /\ charAt(s, e1) = "." /\ e2 > e1 + 1 THEN e2 ELSE 0

matchEquals(s, p) ==
  LET e1 == runEnd(s, p, clsWord)
      e2 == runEnd(s, e1, clsSpace)
      e3 == runEnd(s, e2 + 3, clsSpace)
      e4 == runEnd(s, e3, clsNotSpace)
  IN  IF e1 > p /\ occursAt(s, <<"=","=","=">>, e2) /\ e4 > e3 THEN e4 ELSE 0

\* the alternatives in the order the regex lists them
matchAt(s, p) ==
  IF matchCall(s, p) # 0 THEN matchCall(s, p)
  ELSE IF matchMember(s, p) # 0 THEN matchMember(s, p)
  ELSE matchEquals(s, p)

\* the while loop around regex.exec: the leftmost match from lastIndex on,
\* then again from the end of that match
RECURSIVE regexExecAll(_, _)
regexExecAll(s, lastIndex) ==
  LET starts == {p \in lastIndex..Len(s) : matchAt(s, p) # 0}
  IN  IF lastIndex > Len(s) \/ starts = {} THEN <<>>
      ELSE LET p == CHOOSE q \in starts : \A r \in starts : q <= r
           IN  <<SubSeq(s, p, matchAt(s, p) - 1)>> \o regexExecAll(s, matchAt(s, p))


(***************************************************************************)
(* The texts of the inputs, by name                                        *)
(***************************************************************************)
\* the text a name used in an annotation or in a diff stands for
TextOf(name) ==
  \* 'Foo.bar(x)'
  CASE name = "ctxCall" ->
      <<"F","o","o",".","b","a","r","(","x",")">>
  \* ' foo.bar(x) === y '
    [] name = "ctxCmp" ->
      <<" ","f","o","o",".","b","a","r","(","x",")"," ","=","=","="," ","y"," ">>
  \* 'f(x) { ... }'
    [] name = "ctxShortMarker" ->
      <<"f","(","x",")"," ","{"," ",".",".","."," ","}">>
  \* 'if (user.name === null) { ... } else'
    [] name = "ctxLongMarker" ->
      <<"i","f"," ","(","u","s","e","r",".","n","a","m","e"," ","=","=","="," ",
      "n","u","l","l",")"," ","{"," ",".",".","."," ","}"," ","e","l","s","e">>
  \* '  '
    [] name = "ctxBlank" ->
      <<" "," ">>
  \* '  z = Foo.bar(x);'
    [] name = "txtCall" ->
      <<" "," ","z"," ","="," ","F","o","o",".","b","a","r","(","x",")",";">>
  \* 'if (foo.bar(x) === y) {'
    [] name = "txtCmp" ->
      <<"i","f"," ","(","f","o","o",".","b","a","r","(","x",")"," ","=","=","=",
      " ","y",")"," ","{">>
  \* 'function f(x) { return user.name; }'
    [] name = "txtUser" ->
      <<"f","u","n","c","t","i","o","n"," ","f","(","x",")"," ","{"," ","r","e",
      "t","u","r","n"," ","u","s","e","r",".","n","a","m","e",";"," ","}">>

(***************************************************************************)
(* Phrase extraction: the head of the loop body of mapCommentsToDiff       *)
(***************************************************************************)
\* the context length beyond which sub-phrases are extracted, and the
\* length of the catch-all phrase
ContextLimit == 30

\* '{ ... }'
Marker == <<"{"," ",".",".","."," ","}">>

\* let codeContext = comment.context.trim().toLowerCase()
codeContextOf(comment) == toLowerCase(trim(TextOf(comment.context)))

\* keyPhrases as the loop over the diff finds it, before it is sorted
extractKeyPhrases(codeContext) ==
  LET marked == IF includes(codeContext, Marker)
                THEN <<trim(replaceFirst(codeContext, Marker, <<>>))>>
                ELSE <<>>
  IN  IF Len(codeContext) > ContextLimit \/ Len(marked) = 0
      THEN marked \o regexExecAll(codeContext, 1)
                  \o <<sliceTo(codeContext, ContextLimit)>>
      ELSE <<codeContext>>

\* keyPhrases.sort((a, b) => b.length - a.length): stable, longest first
insertByLength(sorted, x) ==
  LET shorter == {i \in 1..Len(sorted) : Len(sorted[i]) < Len(x)}
  IN  IF shorter = {} THEN Append(sorted, x)
      ELSE LET i == CHOOSE k \in shorter : \A m \in shorter : k <= m
           IN  SubSeq(sorted, 1, i - 1) \o <<x>> \o SubSeq(sorted, i, Len(sorted))

RECURSIVE sortByLength(_)
sortByLength(phrases) ==
  IF phrases = <<>> THEN <<>>
  ELSE insertByLength(sortByLength(SubSeq(phrases, 1, Len(phrases) - 1)),
                      phrases[Len(phrases)])

(***************************************************************************)
(* The parsed diff.  A diff is a sequence of entries: "file" opens a file  *)
(* with its first hunk, "hunk" opens a further hunk of the current file,   *)
(* "chg" is one line of a hunk.  parse gives what parse-diff gives:        *)
(* files[].to, files[].chunks[].changes[] with add/del/normal, content     *)
(* (the line with its +, - or blank prefix) and ln (new-side number of an  *)
(* added line, old-side number of a removed one; a context line has ln1    *)
(* and ln2 and no ln).                                                     *)
(***************************************************************************)
FilePaths == <<"a.js", "b.js", "c.js", "d.js", "e.js", "f.js", "g.js", "h.js">>

\* a value that is not a line number: property ln of a context line
Undefined == -1

EntryFile == [e |-> "file", kind |-> "", text |-> ""]
EntryHunk == [e |-> "hunk", kind |-> "", text |-> ""]
EntryChange(kind, text) == [e |-> "chg", kind |-> kind, text |-> text]

prefixOf(kind) == IF kind = "add" THEN "+" ELSE IF kind = "del" THEN "-" ELSE " "

\* the k-th hunk of a file starts at line 10(k-1)+1 on both sides
hunkStart(k) == 10 * (k - 1) + 1

\* positions of the entries e of diff from position lo up to position hi
positionsOf(diff, e, lo, hi) == {i \in lo..hi : diff[i].e = e}

\* the ordered sequence of a set of positions
RECURSIVE orderOf(_)
orderOf(S) ==
  IF S = {} THEN <<>>
  ELSE LET m == CHOOSE x \in S : \A y \in S : x <= y
       IN  <<m>> \o orderOf(S \ {m})

\* the changes of the hunk whose lines are diff[lo..hi], k-th hunk of its file
parseChanges(diff, lo, hi, k) ==
  [j \in 1..(hi - lo + 1) |->
     LET c == diff[lo + j - 1]
         before == {i \in lo..(lo + j - 2) : TRUE}
         newLine == hunkStart(k)
                    + Cardinality({i \in before : diff[i].kind \in {"add", "normal"}})
         oldLine == hunkStart(k)
                    + Cardinality({i \in before : diff[i].kind \in {"del", "normal"}})
     IN  [add |-> c.kind = "add", del |-> c.kind = "del",
          normal |-> c.kind = "normal",
          content |-> <<prefixOf(c.kind)>> \o TextOf(c.text),
          ln |-> IF c.kind = "add" THEN newLine
                 ELSE IF c.kind = "del" THEN oldLine ELSE Undefined,
          ln2 |-> IF c.kind = "normal" THEN newLine ELSE Undefined]]

\* the chunks of the file whose entries are diff[lo..hi], diff[lo] its header
parseChunks(diff, lo, hi) ==
  LET heads == <<lo>> \o orderOf(positionsOf(diff, "hunk", lo + 1, hi))
  IN  [k \in 1..Len(heads) |->
         [changes |-> parseChanges(diff, heads[k] + 1,
                                   IF k = Len(heads) THEN hi ELSE heads[k + 1] - 1,
                                   k)]]

\* const files = parse(diff)
parse(diff) ==
  LET heads == orderOf(positionsOf(diff, "file", 1, Len(diff)))
  IN  [f \in 1..Len(heads) |->
         [to |-> FilePaths[f],
          chunks |-> parseChunks(diff, heads[f],
                                 IF f = Len(heads) THEN Len(diff) ELSE heads[f + 1] - 1)]]

(***************************************************************************)
(* Inputs: the contexts an LLM answer may hold, and the lines of a diff    *)
(***************************************************************************)
annCall == [context |-> "ctxCall", comment |-> "missing null check",
            suggestion |-> "add a guard"]
annCmp == [context |-> "ctxCmp", comment |-> "loose comparison",
           suggestion |-> "compare explicitly"]
annShortMarker == [context |-> "ctxShortMarker", comment |-> "empty body",
                   suggestion |-> "implement it"]
annLongMarker == [context |-> "ctxLongMarker", comment |-> "unchecked user",
                  suggestion |-> "validate the user"]
annBlank == [context |-> "ctxBlank", comment |-> "general remark",
             suggestion |-> "none"]

Annotations == {annCall, annCmp, annShortMarker, annLongMarker, annBlank}

\* the entries a diff is made of
DiffEntries ==
  {EntryFile, EntryHunk,
   EntryChange("add", "txtCall"), EntryChange("add", "txtCmp"),
   EntryChange("add", "txtUser"),
   EntryChange("del", "txtCmp"), EntryChange("normal", "txtCmp")}

\* the diffs of at most n entries; the first entry opens a file
DiffsUpTo(n) ==
  UNION {{d \in [1..k -> DiffEntries] : d[1] = EntryFile} : k \in 1..n}

\* the LLM answers of at most n annotations
AnswersUpTo(n) == UNION {[1..k -> Annotations] : k \in 0..n}

(***************************************************************************)
(* mapCommentsToDiff                                                       *)
(***************************************************************************)
\* the concatenation of a sequence of sequences: what successive push calls
\* leave in one array
RECURSIVE flatten(_)
flatten(seqs) ==
  IF seqs = <<>> THEN <<>> ELSE seqs[1] \o flatten(Tail(seqs))

\* body: `Issue: ${comment.comment}\n\n**Suggestion:** ${comment.suggestion}`
bodyOf(comment) ==
  <<"Issue: ", comment.comment, "\n\n**Suggestion:** ", comment.suggestion>>

\* the object pushed for a match of comment on change of file
mappedEntry(file, change, comment) ==
  [path |-> file.to, line |-> change.ln, side |-> "RIGHT", body |-> bodyOf(comment)]

\* for (const phrase of keyPhrases) if (phrase && lineContent.includes(phrase))
phraseFound(lineContent, keyPhrases) ==
  \E i \in 1..Len(keyPhrases) :
    /\ keyPhrases[i] # <<>>
    /\ includes(lineContent, keyPhrases[i])

\* const lineContent = change.content.trim().toLowerCase()
lineContentOf(content) == toLowerCase(trim(content))

\* keyPhrases of a comment after keyPhrases.sort(...)
sortedKeyPhrases(comment) ==
  sortByLength(extractKeyPhrases(codeContextOf(comment)))

\* the contents parse gives the changes of a diff
LineContents ==
  {<<prefixOf(e.kind)>> \o TextOf(e.text) : e \in {x \in DiffEntries : x.e = "chg"}}

\* the inner loop over keyPhrases for every content and annotation of the
\* inputs, tabulated once (@@ makes the function an explicit table)
hitTable ==
  [p \in LineContents \X Annotations |->
     phraseFound(lineContentOf(p[1]), sortedKeyPhrases(p[2]))] @@ <<>>

\* a matcher that skips the test of change.add
changeMatchesAnyKind(change, comment) ==
  hitTable[<<change.content, comment>>]

\* one change of the innermost loop: does it set matched
changeMatches(change, comment) ==
  /\ change.add
  /\ hitTable[<<change.content, comment>>]

\* for (const change of chunk.changes) ... if (matched) break
RECURSIVE scanChanges(_, _, _, _)
scanChanges(file, changes, j, comment) ==
  IF j > Len(changes) THEN <<>>
  ELSE IF changeMatches(changes[j], comment)
       THEN <<mappedEntry(file, changes[j], comment)>>
       ELSE scanChanges(file, changes, j + 1, comment)

\* for (const chunk of file.chunks) ... if (matched) break
RECURSIVE scanChunks(_, _, _)
scanChunks(file, k, comment) ==
  IF k > Len(file.chunks) THEN <<>>
  ELSE LET got == scanChanges(file, file.chunks[k].changes, 1, comment)
       IN  IF got # <<>> THEN got ELSE scanChunks(file, k + 1, comment)

\* for (const file of files) ... if (matched) break
RECURSIVE scanFiles(_, _, _)
scanFiles(files, f, comment) ==
  IF f > Len(files) THEN <<>>
  ELSE LET got == scanChunks(files[f], 1, comment)
       IN  IF got # <<>> THEN got ELSE scanFiles(files, f + 1, comment)

\* a matcher that takes the phrases in turn, longest first, and scans the whole
\* diff for each: the anchor is the first added line holding the longest
\* phrase found anywhere
RECURSIVE firstLineWith(_, _, _)
firstLineWith(lines, n, phrase) ==
  IF n > Len(lines) THEN <<>>
  ELSE IF phrase # <<>> /\ includes(lineContentOf(lines[n].change.content), phrase)
       THEN <<lines[n]>>
       ELSE firstLineWith(lines, n + 1, phrase)

addedChangesOf(files) ==
  flatten([f \in 1..Len(files) |->
    flatten([k \in 1..Len(files[f].chunks) |->
      LET added == SelectSeq(files[f].chunks[k].changes, LAMBDA c : c.add)
      IN  [j \in 1..Len(added) |-> [file |-> files[f], change |-> added[j]]]])])

RECURSIVE scanPhrases(_, _, _, _)
scanPhrases(lines, keyPhrases, n, comment) ==
  IF n > Len(keyPhrases) THEN <<>>
  ELSE LET got == firstLineWith(lines, 1, keyPhrases[n])
       IN  IF got # <<>>
           THEN <<mappedEntry(got[1].file, got[1].change, comment)>>
           ELSE scanPhrases(lines, keyPhrases, n + 1, comment)

mapCommentPhraseMajor(files, comment) ==
  scanPhrases(addedChangesOf(files), sortedKeyPhrases(comment), 1, comment)

\* one iteration of for (const comment of llmComments): what it pushes
mapComment(files, comment) == scanFiles(files, 1, comment)

\* a loop that ends at the first annotation it cannot map
pushesOfStopAtMiss(files, llmComments) ==
  [i \in 1..Len(llmComments) |->
     IF \E j \in 1..(i - 1) : mapComment(files, llmComments[j]) = <<>>
     THEN <<>>
     ELSE mapComment(files, llmComments[i])]

\* a loop whose flag matched is declared once, ahead of the annotations: after
\* the first match every later annotation sees the first change only
firstChangeOnly(files, comment) ==
  IF /\ Len(files) > 0
     /\ Len(files[1].chunks[1].changes) > 0
     /\ changeMatches(files[1].chunks[1].changes[1], comment)
  THEN <<mappedEntry(files[1], files[1].chunks[1].changes[1], comment)>>
  ELSE <<>>

pushesOfSharedMatched(files, llmComments) ==
  [i \in 1..Len(llmComments) |->
     IF \E j \in 1..(i - 1) : mapComment(files, llmComments[j]) # <<>>
     THEN firstChangeOnly(files, llmComments[i])
     ELSE mapComment(files, llmComments[i])]

\* what each iteration pushes, in the order of llmComments
pushesOf(files, llmComments) ==
  [i \in 1..Len(llmComments) |-> mapComment(files, llmComments[i])]

\* the contexts of the iterations that reach console.warn(`Could not map: ...`)
warningsOf(pushes, llmComments) ==
  flatten([i \in 1..Len(llmComments) |->
             IF pushes[i] = <<>> THEN <<llmComments[i].context>> ELSE <<>>])

mapCommentsToDiff(diff, llmComments) == flatten(pushesOf(parse(diff), llmComments))

(***************************************************************************)
(* Review payloads                                                         *)
(***************************************************************************)
ReviewModes == {"REQUEST_CHANGES", "APPROVE", "COMMENT"}

\* a payload builder that attaches the list whatever the mode and its length
submitReviewAlwaysComments(mappedComments, mode) ==
  [event |-> mode, body |-> "LGTM! Approving.", comments |-> mappedComments]

\* submitReview(mappedComments, mode): the payload handed to axios.post
submitReview(mappedComments, mode) ==
  LET payload == [event |-> mode]
  IN  IF mode = "APPROVE"
      THEN payload @@ ("body" :> "LGTM! Approving.")
      ELSE IF mode = "REQUEST_CHANGES" \/ mode = "COMMENT"
      THEN LET withBody ==
                 payload @@ ("body" :>
                   "Automated PR review found critical issues. See inline comments.")
           IN  IF Len(mappedComments) > 0
               THEN withBody @@ ("comments" :> mappedComments)
               ELSE withBody
      ELSE payload

\* approvePullRequest(body): the payload handed to axios.post; "" is no body
approvePullRequest(body) ==
  [event |-> "APPROVE", body |-> IF body = "" THEN "LGTM! Approving." ELSE body]

callSubmitReview(mappedComments, mode) ==
  [fn |-> "submitReview", mappedComments |-> mappedComments, mode |-> mode,
   body |-> ""]
callApprove(body) ==
  [fn |-> "approvePullRequest", mappedComments |-> <<>>, mode |-> "",
   body |-> body]
NoCall == [fn |-> "", mappedComments |-> <<>>, mode |-> "", body |-> ""]
NoPayload == [event |-> ""]

payloadOf(call) ==
  IF call.fn = "submitReview" THEN submitReview(call.mappedComments, call.mode)
  ELSE approvePullRequest(call.body)

(***************************************************************************)
(* The review cache file and the collected-comments file                   *)
(***************************************************************************)
\* a writer that puts the comments in the file last first
stringifyCommentsReversed(cs) ==
  [i \in 1..Len(cs) |->
     <<cs[Len(cs) + 1 - i].path, cs[Len(cs) + 1 - i].line,
       cs[Len(cs) + 1 - i].side, cs[Len(cs) + 1 - i].body>>]

\* JSON.stringify of a list of mapped comments: the members in key order
stringifyComments(cs) ==
  [i \in 1..Len(cs) |-> <<cs[i].path, cs[i].line, cs[i].side, cs[i].body>>]

\* JSON.parse of such a text
parseComments(text) ==
  [i \in 1..Len(text) |->
     [path |-> text[i][1], line |-> text[i][2], side |-> text[i][3],
      body |-> text[i][4]]]

\* JSON.stringify({ last_commit, previous_comments })
stringifyState(data) ==
  <<"last_commit", data.last_commit,
    "previous_comments", stringifyComments(data.previous_comments)>>

MissingFile == [exists |-> FALSE, text |-> <<>>]
EmptyFile == [exists |-> TRUE, text |-> <<>>]
CorruptFile == [exists |-> TRUE, text |-> <<"{">>]

\* does JSON.parse accept the text as a review state
parsesAsState(text) ==
  /\ Len(text) = 4
  /\ text[1] = "last_commit"
  /\ text[3] = "previous_comments"

\* what loadReviewCache returns for no usable file
Null == [null |-> TRUE]

\* saveReviewCache(data): the file after fs.writeFileSync
saveReviewCache(data) == [exists |-> TRUE, text |-> stringifyState(data)]

\* a loader that takes a file it cannot decode for a state without comments
loadReviewCacheLenient(file) ==
  IF ~file.exists THEN Null
  ELSE IF file.text = <<>> THEN Null
  ELSE IF ~parsesAsState(file.text)
  THEN [last_commit |-> Undefined, previous_comments |-> <<>>]
  ELSE [last_commit |-> file.text[2],
        previous_comments |-> parseComments(file.text[4])]

\* loadReviewCache(): what it returns for the file as it is
loadReviewCache(file) ==
  IF ~file.exists THEN Null
  ELSE IF file.text = <<>> THEN Null
  ELSE IF ~parsesAsState(file.text) THEN Null
  ELSE [last_commit |-> file.text[2],
        previous_comments |-> parseComments(file.text[4])]

(***************************************************************************)
(* The cache file of a pull request: process.env gives REPO_OWNER,         *)
(* REPO_NAME and PR_NUMBER, and the workspace is the same for every key    *)
(***************************************************************************)
Owners == {"a", "a-b"}
Repos == {"c", "b-c"}
\* the largest PR_NUMBER
MaxPrNumber == 1
Keys == [owner : Owners, repo : Repos, number : 1..MaxPrNumber]

\* process.env.GITHUB_WORKSPACE
Workspace == "/github/workspace"

\* path.join(workspace, `.bot-pr-review-${REPO_OWNER}-${REPO_NAME}-pr${PR_NUMBER}.json`)
getCacheFileName(e) ==
  Workspace \o "/" \o ".bot-pr-review-" \o e.owner \o "-" \o e.repo
            \o "-pr" \o ToString(e.number) \o ".json"

CacheFileNames == {getCacheFileName(k) : k \in Keys}

(***************************************************************************)
(* The decisions of main and of the CLI variants                           *)
(***************************************************************************)
\* a driver without the branch that returns when there is no new commit
selectBaseNeverSkips(previousCache, currentSha, prBase) ==
  IF previousCache = Null THEN [skip |-> FALSE, baseSha |-> prBase]
  ELSE [skip |-> FALSE, baseSha |-> previousCache.last_commit]

\* if (!previousCache) ... else if (previousCache.last_commit === currentSha)
\* return; else ...: whether the run stops here, and the base of the diff
selectBase(previousCache, currentSha, prBase) ==
  IF previousCache = Null THEN [skip |-> FALSE, baseSha |-> prBase]
  ELSE IF previousCache.last_commit = currentSha
  THEN [skip |-> TRUE, baseSha |-> Undefined]
  ELSE [skip |-> FALSE, baseSha |-> previousCache.last_commit]

\* a filter that compares the paths only
relevantFixesByPath(previousCache, mapped) ==
  SelectSeq(mapped,
            LAMBDA c : \E i \in 1..Len(previousCache.previous_comments) :
                         previousCache.previous_comments[i].path = c.path)

\* mapped.filter(c => previousLines.some(prev => prev.path === c.path &&
\*                                               prev.line === c.line))
relevantFixesOf(previousCache, mapped) ==
  LET previousLines ==
        [i \in 1..Len(previousCache.previous_comments) |->
           [path |-> previousCache.previous_comments[i].path,
            line |-> previousCache.previous_comments[i].line]]
  IN  SelectSeq(mapped,
                LAMBDA c : \E i \in 1..Len(previousLines) :
                             /\ previousLines[i].path = c.path
                             /\ previousLines[i].line = c.line)

\* a first review that requests changes whatever mapped holds
firstReviewAlwaysRequests(mapped, currentSha) ==
  [cache |-> [last_commit |-> currentSha, previous_comments |-> mapped],
   call |-> callSubmitReview(mapped, "REQUEST_CHANGES")]

\* the first-review branch of main: the state saved, then the call made
firstReview(mapped, currentSha) ==
  [cache |-> [last_commit |-> currentSha, previous_comments |-> mapped],
   call |-> IF Len(mapped) > 0
            THEN callSubmitReview(mapped, "REQUEST_CHANGES")
            ELSE callApprove("Looks good to me. Approving.")]

\* a re-review that, with no comment of the state left, reports the comments
\* mapped at other lines and keeps them open
reReviewReportingNew(previousCache, mapped, currentSha) ==
  LET relevantFixes == relevantFixesOf(previousCache, mapped)
      open == IF Len(relevantFixes) = 0 THEN mapped ELSE relevantFixes
  IN  IF Len(open) = 0
      THEN [cache |-> [last_commit |-> currentSha, previous_comments |-> <<>>],
            call |-> callApprove("Looks good to me. Approving.")]
      ELSE [cache |-> [last_commit |-> currentSha, previous_comments |-> open],
            call |-> callSubmitReview(open, "REQUEST_CHANGES")]

\* a re-review that keeps the comments of the state and adds the new ones
reReviewCarryingOver(previousCache, mapped, currentSha) ==
  LET relevantFixes == relevantFixesOf(previousCache, mapped)
      kept == previousCache.previous_comments \o relevantFixes
  IN  IF Len(relevantFixes) = 0
      THEN [cache |-> [last_commit |-> currentSha,
                       previous_comments |-> previousCache.previous_comments],
            call |-> callApprove("Looks good to me. Approving.")]
      ELSE [cache |-> [last_commit |-> currentSha, previous_comments |-> kept],
            call |-> callSubmitReview(relevantFixes, "REQUEST_CHANGES")]

\* the re-review branch of main: the state saved, then the call made
reReview(previousCache, mapped, currentSha) ==
  LET relevantFixes == relevantFixesOf(previousCache, mapped)
  IN  IF Len(relevantFixes) = 0
      THEN [cache |-> [last_commit |-> currentSha, previous_comments |-> <<>>],
            call |-> callApprove("Looks good to me. Approving.")]
      ELSE [cache |-> [last_commit |-> currentSha,
                       previous_comments |-> relevantFixes],
            call |-> callSubmitReview(relevantFixes, "REQUEST_CHANGES")]

\* main after mapCommentsToDiff: if (!previousCache) ... else ...
decide(previousCache, mapped, currentSha) ==
  IF previousCache = Null THEN firstReview(mapped, currentSha)
  ELSE reReview(previousCache, mapped, currentSha)

\* --post-comments after loadReviewCache: the call made
postComments(previousCache, mapped) ==
  IF previousCache = Null
  THEN callSubmitReview(mapped,
                        IF Len(mapped) > 0 THEN "REQUEST_CHANGES" ELSE "APPROVE")
  ELSE LET relevantFixes == relevantFixesOf(previousCache, mapped)
       IN  IF Len(relevantFixes) = 0 THEN callApprove("")
           ELSE callSubmitReview(relevantFixes, "REQUEST_CHANGES")

(***************************************************************************)
(* State                                                                   *)
(***************************************************************************)
VARIABLES
  head,           \* the head commit of the pull request on the platform
  cacheFile,      \* the review cache file of the pull request
  artifact,       \* review-comments.json
  mode,           \* the entry point of the current run
  pc,             \* where the current run is
  outcome,        \* how the run ended
  currentSha,     \* prDetails.head.sha
  prBaseSha,      \* prDetails.base.sha
  previousCache,  \* what loadReviewCache returned
  baseSha,        \* the base of the diff
  diff,           \* the diff fetched, or the diff passed to mapCommentsToDiff
  llmComments,    \* the comments of the LLM answer
  pushed,         \* what each iteration of mapCommentsToDiff pushed
  mapped,         \* what mapCommentsToDiff returned
  warned,         \* the contexts console.warn reported as not mapped
  reqArgs,        \* the call of submitReview / approvePullRequest
  request,        \* the payload given to axios.post
  calls,          \* the external steps of the run, in order
  cacheAtStart,   \* the cache file when the run started
  collected,      \* the last --collect-comments run, if nothing ran since
  disk,           \* the cache files of the workspace, by name
  env,            \* REPO_OWNER, REPO_NAME and PR_NUMBER of the process
  saved,          \* the calls of saveReviewCache: key and data, in order
  runs,           \* the locals of the runs of main that overlap on one key
  todos,          \* src/server.js: let todos = []
  idCounter,      \* src/server.js: let idCounter = 1
  req,            \* the request the todo server handled last
  res,            \* its response
  deletedIds      \* the ids of the todos DELETE has removed so far

vars == <<head, cacheFile, artifact, mode, pc, outcome, currentSha, prBaseSha,
          previousCache, baseSha, diff, llmComments, pushed, mapped, warned,
          reqArgs, request, calls, cacheAtStart, collected, disk, env, saved,
          runs, todos, idCounter, req, res, deletedIds>>

durable == <<head, cacheFile, artifact>>
locals == <<currentSha, prBaseSha, previousCache, baseSha>>
pipeline == <<diff, llmComments, pushed, mapped, warned>>
submission == <<reqArgs, request>>
storage == <<disk, env, saved, runs, todos, idCounter, req, res, deletedIds>>

\* number of commits the pull request can have as its head
MaxCommits == 3
Commits == 1..MaxCommits
\* the commit of the base branch
BaseSha == 0

NotCollected == [valid |-> FALSE, prior |-> Null, head |-> Undefined,
                 mapped |-> <<>>, upToDate |-> FALSE]

\* the diffs and LLM answers of the runs of the entry points
DriverDiffs ==
  {<<EntryFile, EntryChange("add", "txtCall"), EntryChange("add", "txtUser")>>,
   <<EntryFile, EntryChange("del", "txtCmp"), EntryChange("add", "txtUser"),
     EntryChange("add", "txtCmp")>>}
DriverAnswers ==
  {<<>>, <<annCall>>, <<annCall, annLongMarker>>, <<annShortMarker>>}

\* the workspace before any cache file is written
NoDisk == [name \in CacheFileNames |-> MissingFile]
\* the key of the runs of the entry points
DriverEnv == [owner |-> "a", repo |-> "c", number |-> 1]

\* the processes that run main at the same time
Procs == {"A", "B"}
\* the locals of each before it starts; loadedAfter is the number of calls
\* of saveReviewCache made when its loadReviewCache returned
NoRuns ==
  [p \in Procs |->
     [pc |-> "idle", currentSha |-> Undefined, prBaseSha |-> Undefined,
      previousCache |-> Null, baseSha |-> Undefined, diff |-> <<>>,
      mapped |-> <<>>, request |-> NoPayload, loadedAfter |-> 0,
      outcome |-> "none"]]

\* the todo server when it starts to listen
ServerStart ==
  /\ todos = <<>>
  /\ idCounter = 1
  /\ req = [method |-> "", id |-> <<>>, body |-> <<>>]
  /\ res = [status |-> 0]
  /\ deletedIds = {}

\* the entry points run for one key, one process at a time; its cache file
\* is cacheFile
OneKey ==
  /\ disk = NoDisk
  /\ env = DriverEnv
  /\ saved = <<>>
  /\ runs = NoRuns
  /\ ServerStart

\* the state of a process before it runs
Idle ==
  /\ mode = "none" /\ pc = "idle" /\ outcome = "none"
  /\ currentSha = Undefined /\ prBaseSha = Undefined
  /\ previousCache = Null /\ baseSha = Undefined
  /\ calls = <<>>
  /\ collected = NotCollected

NoPipeline ==
  /\ diff = <<>> /\ llmComments = <<>> /\ pushed = <<>> /\ mapped = <<>>
  /\ warned = <<>>

Init ==
  /\ head \in Commits
  /\ cacheFile \in {MissingFile, EmptyFile, CorruptFile}
  /\ artifact = MissingFile
  /\ cacheAtStart = cacheFile
  /\ OneKey
  /\ Idle
  /\ NoPipeline
  /\ reqArgs = NoCall /\ request = NoPayload

(***************************************************************************)
(* The platform: a push changes the head of the pull request               *)
(***************************************************************************)
Push ==
  /\ \E c \in Commits \ {head} : head' = c
  /\ collected' = NotCollected
  /\ UNCHANGED <<storage, cacheFile, artifact, mode, pc, outcome, locals,
                 pipeline, submission, calls, cacheAtStart>>

(***************************************************************************)
(* Entry points                                                            *)
(***************************************************************************)
\* a process starts in entry point m at step at: nothing of the last run is
\* left but the files
Begin(m, at) ==
  /\ pc \in {"idle", "done"}
  /\ mode' = m
  /\ pc' = at
  /\ currentSha' = Undefined /\ prBaseSha' = Undefined
  /\ previousCache' = Null /\ baseSha' = Undefined
  /\ diff' = <<>> /\ llmComments' = <<>> /\ pushed' = <<>> /\ warned' = <<>>
  /\ cacheAtStart' = cacheFile

\* default: await main(), which awaits getPrDetails()
StartFull ==
  /\ Begin("full", "getPrDetails")
  /\ outcome' = "running"
  /\ mapped' = <<>>
  /\ reqArgs' = NoCall /\ request' = NoPayload
  /\ calls' = <<"getPrDetails">>
  /\ collected' = NotCollected
  /\ UNCHANGED <<storage, durable>>

\* --collect-comments: awaits getPrDetails()
StartCollect ==
  /\ Begin("collect", "getPrDetails")
  /\ outcome' = "running"
  /\ mapped' = <<>>
  /\ reqArgs' = NoCall /\ request' = NoPayload
  /\ calls' = <<"getPrDetails">>
  /\ collected' = NotCollected
  /\ UNCHANGED <<storage, durable>>

\* --post-comments: process.exit(1) without the file; else mapped is read
\* from it and loadReviewCache() is awaited
StartPost ==
  /\ Begin("post", IF artifact.exists THEN "loadReviewCache" ELSE "done")
  /\ outcome' = IF artifact.exists THEN "running" ELSE "exit1"
  /\ mapped' = IF artifact.exists THEN parseComments(artifact.text) ELSE <<>>
  /\ reqArgs' = NoCall /\ request' = NoPayload
  /\ calls' = IF artifact.exists THEN <<"readArtifact", "loadReviewCache">>
              ELSE <<>>
  /\ UNCHANGED <<storage, durable, collected>>

\* an --approve that falls through to the default branch and runs main
StartApproveThroughMain ==
  /\ Begin("approve", "getPrDetails")
  /\ outcome' = "running"
  /\ mapped' = <<>>
  /\ reqArgs' = NoCall /\ request' = NoPayload
  /\ calls' = <<"getPrDetails">>
  /\ collected' = NotCollected
  /\ UNCHANGED <<storage, durable>>

\* --approve: awaits approvePullRequest()
StartApprove ==
  /\ Begin("approve", "post")
  /\ outcome' = "running"
  /\ mapped' = <<>>
  /\ reqArgs' = callApprove("")
  /\ request' = payloadOf(callApprove(""))
  /\ calls' = <<"postReview">>
  /\ collected' = NotCollected
  /\ UNCHANGED <<storage, durable>>

\* how a run ends when an awaited call throws: main catches, the CLI
\* variants have no handler
failureOutcome(m) == IF m \in {"full", "full0"} THEN "caught" ELSE "rejected"

\* an awaited call throws at step at
Fails(at, what) ==
  /\ pc = at
  /\ pc' = "done"
  /\ outcome' = failureOutcome(mode)
  /\ calls' = Append(calls, what)
  /\ UNCHANGED <<storage, durable, mode, locals, pipeline, submission,
                 cacheAtStart, collected>>

(***************************************************************************)
(* The steps of main and of --collect-comments                             *)
(***************************************************************************)
\* main with the saveReviewCache of line 261 in place: the cache is written
\* between getPrDetails and loadReviewCache
GetPrDetailsOkSaving ==
  /\ pc = "getPrDetails"
  /\ currentSha' = head
  /\ prBaseSha' = BaseSha
  /\ cacheFile' = saveReviewCache([last_commit |-> BaseSha,
                                   previous_comments |-> <<>>])
  /\ pc' = "loadReviewCache"
  /\ calls' = Append(calls, "loadReviewCache")
  /\ UNCHANGED <<storage, head, artifact, mode, outcome, previousCache, baseSha,
                 pipeline, submission, cacheAtStart, collected>>

\* const prDetails = await getPrDetails(); const currentSha = prDetails.head.sha
GetPrDetailsOk ==
  /\ pc = "getPrDetails"
  /\ currentSha' = head
  /\ prBaseSha' = BaseSha
  /\ pc' = "loadReviewCache"
  /\ calls' = Append(calls, "loadReviewCache")
  /\ UNCHANGED <<storage, durable, mode, outcome, previousCache, baseSha,
                 pipeline, submission, cacheAtStart, collected>>

GetPrDetailsFail == Fails("getPrDetails", "failed:getPrDetails")

\* loadReviewCache returns and the base of the diff is chosen; with no new
\* commit main returns and --collect-comments writes an empty file
LoadCache ==
  /\ pc = "loadReviewCache"
  /\ mode \in {"full", "collect"}
  /\ previousCache' = loadReviewCache(cacheFile)
  /\ LET sel == selectBase(previousCache', currentSha, prBaseSha)
     IN  /\ baseSha' = sel.baseSha
         /\ pc' = IF sel.skip THEN "done" ELSE "getDiff"
         /\ outcome' = IF sel.skip THEN "returned" ELSE outcome
         /\ calls' = IF sel.skip
                     THEN (IF mode = "collect" THEN Append(calls, "writeArtifact")
                           ELSE calls)
                     ELSE Append(calls, "getDiffFromCommits")
         /\ artifact' = IF sel.skip /\ mode = "collect"
                        THEN [exists |-> TRUE, text |-> stringifyComments(<<>>)]
                        ELSE artifact
         /\ collected' = IF sel.skip /\ mode = "collect"
                         THEN [valid |-> TRUE, prior |-> previousCache',
                               head |-> currentSha, mapped |-> <<>>,
                               upToDate |-> TRUE]
                         ELSE collected
  /\ UNCHANGED <<storage, head, cacheFile, mode, currentSha, prBaseSha,
                 pipeline, submission, cacheAtStart>>

GetDiffOk ==
  /\ pc = "getDiff"
  /\ \E d \in DriverDiffs : diff' = d
  /\ pc' = "llm"
  /\ calls' = Append(calls, "generateCommentsFromLLM")
  /\ UNCHANGED <<storage, durable, mode, outcome, locals, llmComments, pushed,
                 mapped, warned, submission, cacheAtStart, collected>>

GetDiffFail == Fails("getDiff", "failed:getDiffFromCommits")

\* openai.chat.completions.create throws
LlmFail == Fails("llm", "failed:generateCommentsFromLLM")

\* JSON.parse(content) throws
LlmMalformed == Fails("llm", "failed:JSON.parse")

\* the answer arrives in main: map, decide, save the cache, post the review
LlmOkFull ==
  /\ pc = "llm"
  /\ mode = "full"
  /\ \E answer \in DriverAnswers :
       /\ llmComments' = answer
       /\ pushed' = pushesOf(parse(diff), answer)
       /\ warned' = warningsOf(pushed', answer)
       /\ mapped' = flatten(pushed')
  /\ LET plan == decide(previousCache, mapped', currentSha)
     IN  /\ cacheFile' = saveReviewCache(plan.cache)
         /\ reqArgs' = plan.call
         /\ request' = payloadOf(plan.call)
  /\ calls' = calls \o <<"saveReviewCache", "postReview">>
  /\ pc' = "post"
  /\ UNCHANGED <<storage, head, artifact, mode, outcome, locals, diff,
                 cacheAtStart, collected>>

\* the answer arrives in --collect-comments: map, write the file, save the cache
LlmOkCollect ==
  /\ pc = "llm"
  /\ mode = "collect"
  /\ \E answer \in DriverAnswers :
       /\ llmComments' = answer
       /\ pushed' = pushesOf(parse(diff), answer)
       /\ warned' = warningsOf(pushed', answer)
       /\ mapped' = flatten(pushed')
  /\ artifact' = [exists |-> TRUE, text |-> stringifyComments(mapped')]
  /\ cacheFile' = saveReviewCache([last_commit |-> currentSha,
                                   previous_comments |-> mapped'])
  /\ collected' = [valid |-> TRUE, prior |-> previousCache, head |-> currentSha,
                   mapped |-> mapped', upToDate |-> FALSE]
  /\ calls' = calls \o <<"writeArtifact", "saveReviewCache">>
  /\ pc' = "done"
  /\ outcome' = "returned"
  /\ UNCHANGED <<storage, head, mode, locals, diff, submission, cacheAtStart>>

(***************************************************************************)
(* --post-comments after loadReviewCache, and the answer of the platform   *)
(***************************************************************************)
LoadCachePost ==
  /\ pc = "loadReviewCache"
  /\ mode = "post"
  /\ previousCache' = loadReviewCache(cacheFile)
  /\ reqArgs' = postComments(previousCache', mapped)
  /\ request' = payloadOf(postComments(previousCache', mapped))
  /\ calls' = Append(calls, "postReview")
  /\ pc' = "post"
  /\ UNCHANGED <<storage, durable, mode, outcome, currentSha, prBaseSha,
                 baseSha, pipeline, cacheAtStart, collected>>

\* axios.post resolves
PostOk ==
  /\ pc = "post"
  /\ pc' = "done"
  /\ outcome' = "returned"
  /\ calls' = Append(calls, "reviewPosted")
  /\ UNCHANGED <<storage, durable, mode, locals, pipeline, submission,
                 cacheAtStart, collected>>

\* axios.post rejects
PostFail == Fails("post", "failed:postReview")

Next ==
  \/ Push
  \/ StartFull \/ StartCollect \/ StartPost \/ StartApprove
  \/ GetPrDetailsOk \/ GetPrDetailsFail
  \/ LoadCache
  \/ GetDiffOk \/ GetDiffFail
  \/ LlmOkFull \/ LlmOkCollect \/ LlmFail \/ LlmMalformed
  \/ LoadCachePost
  \/ PostOk \/ PostFail

Spec == Init /\ [][Next]_vars

(***************************************************************************)
(* mapCommentsToDiff and the payload builders called on their own          *)
(***************************************************************************)
Pinned ==
  /\ head = 1
  /\ OneKey
  /\ cacheFile = MissingFile /\ artifact = MissingFile
  /\ cacheAtStart = MissingFile
  /\ outcome = "none"
  /\ currentSha = Undefined /\ prBaseSha = Undefined
  /\ previousCache = Null /\ baseSha = Undefined
  /\ calls = <<>>
  /\ collected = NotCollected

MatchInit ==
  /\ Pinned
  /\ mode = "match" /\ pc = "input"
  /\ diff \in DiffsUpTo(MaxDiffLines)
  /\ llmComments \in AnswersUpTo(MaxAnnotations)
  /\ pushed = <<>> /\ mapped = <<>> /\ warned = <<>>
  /\ reqArgs = NoCall /\ request = NoPayload

\* const mapped = mapCommentsToDiff(diff, comments)
MatchCall ==
  /\ mode = "match" /\ pc = "input"
  /\ pushed' = pushesOf(parse(diff), llmComments)
  /\ warned' = warningsOf(pushed', llmComments)
  /\ mapped' = flatten(pushed')
  /\ pc' = "mapped"
  /\ UNCHANGED <<storage, durable, mode, outcome, locals, diff, llmComments,
                 submission, calls, cacheAtStart, collected>>

SpecMatch == MatchInit /\ [][MatchCall]_vars

\* the lists of mapped comments a caller can hold
MappedLists ==
  {mapCommentsToDiff(d, a) : d \in DriverDiffs, a \in AnswersUpTo(MaxAnnotations)}

SubmitInit ==
  /\ Pinned
  /\ mode = "submit" /\ pc = "input"
  /\ diff = <<>> /\ llmComments = <<>> /\ pushed = <<>> /\ warned = <<>>
  /\ mapped \in MappedLists
  /\ reqArgs = NoCall /\ request = NoPayload

\* await submitReview(mapped, m) up to axios.post
SubmitCall ==
  /\ mode = "submit" /\ pc = "input"
  /\ \E m \in ReviewModes :
       /\ reqArgs' = callSubmitReview(mapped, m)
       /\ request' = payloadOf(callSubmitReview(mapped, m))
  /\ pc' = "sent"
  /\ UNCHANGED <<storage, durable, mode, outcome, locals, pipeline, calls,
                 cacheAtStart, collected>>

\* await approvePullRequest(b) up to axios.post
ApproveCall ==
  /\ mode = "submit" /\ pc = "input"
  /\ \E b \in {"", "Looks good to me. Approving."} :
       /\ reqArgs' = callApprove(b)
       /\ request' = payloadOf(callApprove(b))
  /\ pc' = "sent"
  /\ UNCHANGED <<storage, durable, mode, outcome, locals, pipeline, calls,
                 cacheAtStart, collected>>

SpecSubmit == SubmitInit /\ [][SubmitCall \/ ApproveCall]_vars

(***************************************************************************)
(* Properties of the full-cycle driver, checked under Spec                 *)
(***************************************************************************)
\* the last external step of the run
lastCall == IF calls = <<>> THEN "" ELSE calls[Len(calls)]

\* has the run reached the external step
called(step) == \E i \in 1..Len(calls) : calls[i] = step

\* the (path, line) pairs of a list of comments, in order
anchorsOf(comments) ==
  [i \in 1..Len(comments) |-> <<comments[i].path, comments[i].line>>]

\* the comments a payload carries
commentsOf(payload) ==
  IF "comments" \in DOMAIN payload THEN payload.comments ELSE <<>>

\* a full-cycle run that loaded a state whose last_commit is the current head
UpToDateRun ==
  /\ mode = "full"
  /\ previousCache # Null
  /\ previousCache.last_commit = currentSha

\* C1: a full-cycle run whose loaded state exists with last_commit equal to
\* the current head ends after getPrDetails and loadReviewCache: it fetches no
\* diff, calls no LLM, submits no review and writes no state, and the cache
\* file is what it was when the run started.
C1_UpToDateRunDoesNothing ==
  UpToDateRun =>
    /\ pc = "done" /\ outcome = "returned"
    /\ calls = <<"getPrDetails", "loadReviewCache">>
    /\ diff = <<>> /\ llmComments = <<>>
    /\ reqArgs = NoCall /\ request = NoPayload
    /\ cacheFile = cacheAtStart

\* an up-to-date run has ended over a state that holds open comments
C1_Witness ==
  /\ UpToDateRun
  /\ pc = "done"
  /\ Len(previousCache.previous_comments) > 0
  /\ loadReviewCache(cacheFile) = previousCache

\* a full-cycle run that found no state and went on to fetch the diff
FirstReviewRun ==
  /\ mode = "full"
  /\ previousCache = Null
  /\ called("getDiffFromCommits")

\* C2: in a full-cycle run without prior state the diff is asked from the
\* commit of the base branch to the current head; once the run has decided,
\* the review is REQUEST_CHANGES carrying exactly mapped when mapped is not
\* empty and APPROVE without comments otherwise, and the cache file holds
\* {last_commit: current head, previous_comments: mapped}.
C2_FirstReview ==
  FirstReviewRun =>
    /\ baseSha = prBaseSha /\ prBaseSha = BaseSha
    /\ currentSha \in Commits
    /\ called("saveReviewCache") =>
         /\ IF Len(mapped) > 0
            THEN /\ request.event = "REQUEST_CHANGES"
                 /\ "comments" \in DOMAIN request
                 /\ request.comments = mapped
            ELSE /\ request.event = "APPROVE"
                 /\ "comments" \notin DOMAIN request
         /\ loadReviewCache(cacheFile) =
              [last_commit |-> currentSha, previous_comments |-> mapped]

\* a first review with two mapped comments has been posted
C2_Witness ==
  /\ FirstReviewRun
  /\ lastCall = "reviewPosted"
  /\ Len(mapped) = 2

\* a full-cycle run that found a state and went on to fetch the diff
ReReviewRun ==
  /\ mode = "full"
  /\ previousCache # Null
  /\ called("getDiffFromCommits")

\* the mapped comments whose (path, line) is that of a comment of the state
stillOpen ==
  LET open == {anchorsOf(previousCache.previous_comments)[i] :
                 i \in 1..Len(previousCache.previous_comments)}
  IN  SelectSeq(mapped, LAMBDA c : <<c.path, c.line>> \in open)

\* C3: in a full-cycle run over a state whose last_commit is not the current
\* head the diff is asked from that last_commit; once the run has decided,
\* with no mapped comment at the (path, line) of a comment of the state the
\* review is APPROVE without comments and the cache file holds no comments,
\* otherwise the review is REQUEST_CHANGES carrying those mapped comments and
\* the cache file holds them; the cache file's last_commit is the current head.
C3_ReReview ==
  ReReviewRun =>
    /\ previousCache = loadReviewCache(cacheAtStart)
    /\ previousCache.last_commit # currentSha
    /\ baseSha = previousCache.last_commit
    /\ called("saveReviewCache") =>
         /\ IF Len(stillOpen) = 0
            THEN /\ request.event = "APPROVE"
                 /\ "comments" \notin DOMAIN request
                 /\ loadReviewCache(cacheFile).previous_comments = <<>>
            ELSE /\ request.event = "REQUEST_CHANGES"
                 /\ "comments" \in DOMAIN request
                 /\ request.comments = stillOpen
                 /\ loadReviewCache(cacheFile).previous_comments = stillOpen
         /\ loadReviewCache(cacheFile).last_commit = currentSha

\* a re-review has been posted that reports some mapped comments and not others
C3_Witness ==
  /\ ReReviewRun
  /\ lastCall = "reviewPosted"
  /\ stillOpen # <<>>
  /\ stillOpen # mapped

\* C4: when the submission of a full-cycle run fails the cache file is what
\* it was when the run started.
C4_SubmissionFailureLeavesState ==
  (mode = "full" /\ lastCall = "failed:postReview") => cacheFile = cacheAtStart

\* the failures ahead of the decision
EarlyFailures ==
  {"failed:getPrDetails", "failed:getDiffFromCommits",
   "failed:generateCommentsFromLLM", "failed:JSON.parse"}

\* C5: a full-cycle run in which getPrDetails, getDiffFromCommits, the LLM
\* call or JSON.parse of the answer fails ends caught, with no cache write and
\* no review built or posted; the cache file is what it was when the run
\* started.
C5_EarlyFailureLeavesState ==
  (mode = "full" /\ lastCall \in EarlyFailures) =>
    /\ pc = "done" /\ outcome = "caught"
    /\ ~called("saveReviewCache")
    /\ ~called("postReview")
    /\ reqArgs = NoCall /\ request = NoPayload
    /\ cacheFile = cacheAtStart

\* a re-review has ended on an answer that is not JSON
C5_Witness ==
  /\ mode = "full"
  /\ lastCall = "failed:JSON.parse"
  /\ previousCache # Null
  /\ Len(previousCache.previous_comments) > 0

\* the external steps of a full-cycle run in the order of the specification
StepOrder ==
  <<"getPrDetails", "loadReviewCache", "getDiffFromCommits",
    "generateCommentsFromLLM", "postReview", "reviewPosted", "saveReviewCache">>

\* the steps of the run without the report of a failure
stepsTaken == SelectSeq(calls, LAMBDA c : c \in Range(StepOrder))

\* C6: the external steps of a full-cycle run are taken in the order
\* getPrDetails, loadReviewCache, getDiffFromCommits, generateCommentsFromLLM,
\* submission, saveReviewCache, each at most once: the cache is never written
\* before the submission has completed.
C6_StepsInOrder ==
  mode = "full" =>
    /\ Len(stepsTaken) <= Len(StepOrder)
    /\ stepsTaken = SubSeq(StepOrder, 1, Len(stepsTaken))

\* C10: --post-comments run right after --collect-comments posts the review a
\* full-cycle run from the state, head and mapped comments of the collect run
\* would post: the same event, and comments at the same (path, line) pairs.
C10_CollectThenPostIsFullCycle ==
  (/\ mode = "post"
   /\ called("postReview")
   /\ collected.valid
   /\ ~collected.upToDate) =>
    LET full == payloadOf(decide(collected.prior, collected.mapped,
                                 collected.head).call)
    IN  /\ request.event = full.event
        /\ anchorsOf(commentsOf(request)) = anchorsOf(commentsOf(full))

(***************************************************************************)
(* Properties of the payload builders, checked under SpecSubmit            *)
(***************************************************************************)
\* C7: a payload of submitReview or approvePullRequest with event APPROVE has
\* no comments; one with event REQUEST_CHANGES or COMMENT has comments only
\* when the list passed is not empty, and then they are that list.
C7_PayloadComments ==
  pc = "sent" =>
    /\ request.event = "APPROVE" => "comments" \notin DOMAIN request
    /\ request.event \in {"REQUEST_CHANGES", "COMMENT"} =>
         ("comments" \in DOMAIN request =>
            /\ Len(reqArgs.mappedComments) > 0
            /\ request.comments = reqArgs.mappedComments)

\* submitReview has been called with APPROVE and a list that is not empty
C7_Witness ==
  /\ pc = "sent"
  /\ reqArgs.fn = "submitReview"
  /\ reqArgs.mode = "APPROVE"
  /\ Len(reqArgs.mappedComments) > 0
  /\ request.event = "APPROVE"

(***************************************************************************)
(* Properties of mapCommentsToDiff, checked under SpecMatch                *)
(***************************************************************************)
\* the added lines of the parsed diff in file, hunk and line order
addedLinesOf(files) ==
  flatten([f \in 1..Len(files) |->
    flatten([k \in 1..Len(files[f].chunks) |->
      LET added == SelectSeq(files[f].chunks[k].changes, LAMBDA c : c.add)
      IN  [j \in 1..Len(added) |->
             [path |-> files[f].to, line |-> added[j].ln,
              content |-> added[j].content]]])])

\* C8: every comment mapCommentsToDiff returns has side RIGHT, and its line is
\* the new-side number of an added change of the file of the diff whose new
\* path is the comment's path.
C8_AnchorsAreAddedLines ==
  pc = "mapped" =>
    LET files == parse(diff)
    IN  \A i \in 1..Len(mapped) :
          /\ mapped[i].side = "RIGHT"
          /\ \E f \in 1..Len(files) :
               /\ files[f].to = mapped[i].path
               /\ \E k \in 1..Len(files[f].chunks) :
                    \E j \in 1..Len(files[f].chunks[k].changes) :
                      /\ files[f].chunks[k].changes[j].add
                      /\ files[f].chunks[k].changes[j].ln = mapped[i].line

\* the phrase stands on a removed line, on a context line and on an added
\* line of one hunk, and the comment is on the added line
C8_Witness ==
  /\ pc = "mapped"
  /\ diff = <<EntryFile, EntryChange("del", "txtCmp"),
              EntryChange("normal", "txtCmp"), EntryChange("add", "txtCmp")>>
  /\ llmComments = <<annCmp>>
  /\ Len(mapped) = 1
  /\ mapped[1].line = 2

\* C9: mapCommentsToDiff pushes at most one comment for an annotation; it
\* pushes one exactly when some added line holds a candidate phrase that is
\* not empty, and the comment is then on the first such line in file, hunk
\* and line order, whichever phrase that line holds.
C9_FirstMatchingAddedLine ==
  pc = "mapped" =>
    LET lines == addedLinesOf(parse(diff))
    IN  /\ Len(pushed) = Len(llmComments)
        /\ \A i \in 1..Len(llmComments) :
             LET hits == {n \in 1..Len(lines) :
                            hitTable[<<lines[n].content, llmComments[i]>>]}
             IN  /\ Len(pushed[i]) <= 1
                 /\ pushed[i] = <<>> <=> hits = {}
                 /\ hits # {} =>
                      LET n == CHOOSE m \in hits : \A h \in hits : m <= h
                      IN  /\ pushed[i][1].path = lines[n].path
                          /\ pushed[i][1].line = lines[n].line

\* the first added line holds the shorter phrase only, an added line of a
\* later file holds the longer one, and the comment is on the first
C9_Witness ==
  /\ pc = "mapped"
  /\ diff = <<EntryFile, EntryChange("add", "txtCall"),
              EntryFile, EntryChange("add", "txtCmp")>>
  /\ llmComments = <<annCmp>>
  /\ Len(mapped) = 1
  /\ mapped[1].path = "a.js"
  /\ mapped[1].line = 1

(***************************************************************************)
(* Further properties of the full-cycle driver, checked under Spec         *)
(***************************************************************************)
\* the set of (path, line) pairs of a list of comments
anchorSetOf(comments) ==
  {anchorsOf(comments)[i] : i \in 1..Len(comments)}

\* C11: once a full-cycle run has written the cache, every comment the cache
\* file holds has the (path, line) of a comment mapped from the diff of that
\* run: no anchor of an earlier run is kept that this run did not map.
C11_OpenSetFromThisRun ==
  (mode = "full" /\ called("saveReviewCache")) =>
    /\ loadReviewCache(cacheFile) # Null
    /\ anchorSetOf(loadReviewCache(cacheFile).previous_comments)
         \subseteq anchorSetOf(mapped)

\* a re-review has written a cache that holds a comment and has dropped an
\* anchor of the state it loaded
C11_Witness ==
  /\ ReReviewRun
  /\ called("saveReviewCache")
  /\ loadReviewCache(cacheFile).previous_comments # <<>>
  /\ ~(anchorSetOf(previousCache.previous_comments) \subseteq anchorSetOf(mapped))

\* the cache files loadReviewCache cannot use
UnusableFiles == {MissingFile, EmptyFile, CorruptFile}

\* C12: loadReviewCache returns null for a file that does not exist, for an
\* empty file and for a file that does not decode; a full-cycle run started
\* on such a file goes on from loadReviewCache to fetch the diff from the
\* commit of the base branch, as a first review.
C12_UnusableFileIsAbsentState ==
  /\ \A file \in UnusableFiles : loadReviewCache(file) = Null
  /\ (/\ mode = "full"
      /\ cacheAtStart \in UnusableFiles
      /\ called("loadReviewCache")
      /\ pc # "loadReviewCache") =>
       /\ previousCache = Null
       /\ called("getDiffFromCommits")
       /\ baseSha = prBaseSha /\ prBaseSha = BaseSha

\* a first review has been posted by a run that found a file it could not
\* decode
C12_Witness ==
  /\ mode = "full"
  /\ cacheAtStart = CorruptFile
  /\ previousCache = Null
  /\ lastCall = "reviewPosted"
  /\ loadReviewCache(cacheFile).last_commit = currentSha

(***************************************************************************)
(* saveReviewCache and loadReviewCache called on their own, by processes   *)
(* of any key in one workspace: two writes, then a read                    *)
(***************************************************************************)
\* the well-formed states a caller can save
CacheStates ==
  [last_commit : Commits,
   previous_comments :
     {mapCommentsToDiff(d, a) : d \in DriverDiffs, a \in DriverAnswers}]

CacheInit ==
  /\ head = 1
  /\ cacheFile = MissingFile /\ artifact = MissingFile
  /\ cacheAtStart = MissingFile
  /\ disk = NoDisk
  /\ env \in Keys
  /\ saved = <<>>
  /\ runs = NoRuns
  /\ ServerStart
  /\ mode = "cache" /\ pc = "input" /\ outcome = "none"
  /\ currentSha = Undefined /\ prBaseSha = Undefined
  /\ previousCache = Null /\ baseSha = Undefined
  /\ calls = <<>>
  /\ collected = NotCollected
  /\ NoPipeline
  /\ reqArgs = NoCall /\ request = NoPayload

\* a process of key k calls saveReviewCache(data)
CacheSave ==
  /\ mode = "cache" /\ pc \in {"input", "saved"}
  /\ \E k \in Keys, data \in CacheStates :
       /\ env' = k
       /\ disk' = [disk EXCEPT ![getCacheFileName(k)] = saveReviewCache(data)]
       /\ saved' = Append(saved, [key |-> k, data |-> data])
  /\ pc' = IF pc = "input" THEN "saved" ELSE "savedAgain"
  /\ UNCHANGED <<durable, runs, todos, idCounter, req, res, deletedIds, mode,
                 outcome, locals, pipeline, submission, calls, cacheAtStart,
                 collected>>

\* a process of key k calls loadReviewCache()
CacheLoad ==
  /\ mode = "cache" /\ pc \in {"saved", "savedAgain"}
  /\ \E k \in Keys :
       /\ env' = k
       /\ previousCache' = loadReviewCache(disk[getCacheFileName(k)])
  /\ pc' = "loaded"
  /\ UNCHANGED <<durable, disk, saved, runs, todos, idCounter, req, res,
                 deletedIds, mode, outcome, currentSha, prBaseSha, baseSha,
                 pipeline, submission, calls, cacheAtStart, collected>>

SpecCache == CacheInit /\ [][CacheSave \/ CacheLoad]_vars

\* C13: loadReviewCache called for the key of the last saveReviewCache
\* returns the state that call was given, with the same last_commit and the
\* same sequence of previous_comments, whatever was saved before it.
C13_SaveThenLoad ==
  (pc = "loaded" /\ saved[Len(saved)].key = env) =>
    /\ previousCache = saved[Len(saved)].data
    /\ previousCache.last_commit = saved[Len(saved)].data.last_commit
    /\ previousCache.previous_comments =
         saved[Len(saved)].data.previous_comments

\* two states have been saved for one key, the first with other comments
\* than the second, which holds two; the key has been loaded
C13_Witness ==
  /\ pc = "loaded"
  /\ Len(saved) = 2
  /\ saved[1].key = env /\ saved[2].key = env
  /\ saved[1].data.previous_comments # saved[2].data.previous_comments
  /\ saved[1].data.last_commit # saved[2].data.last_commit
  /\ Len(saved[2].data.previous_comments) = 2
  /\ previousCache = saved[2].data

\* C14: saveReviewCache for one key leaves what loadReviewCache returns for
\* every other key as it was.
C14_SaveLeavesOtherKeys ==
  [][disk' # disk =>
       \A k \in Keys \ {env'} :
         loadReviewCache(disk'[getCacheFileName(k)])
           = loadReviewCache(disk[getCacheFileName(k)])]_vars

(***************************************************************************)
(* Properties of the entry points, checked under Spec                      *)
(***************************************************************************)
\* the reports of a call that threw
Failures == EarlyFailures \cup {"failed:postReview"}

\* C15: in every entry point a run in which a call fails ends with the
\* failure caught: no rejection leaves the entry point.
C15_FailuresAreCaught ==
  (pc = "done" /\ lastCall \in Failures) => outcome = "caught"

\* C17: --approve fetches no pull request details and no diff, calls no LLM,
\* neither reads nor writes the cache, and makes one submission, whose event
\* is APPROVE and which has no comments; the cache file is what it was.
C17_ApproveOnlySubmits ==
  mode = "approve" =>
    /\ calls \in {<<"postReview">>, <<"postReview", "reviewPosted">>,
                  <<"postReview", "failed:postReview">>}
    /\ reqArgs = callApprove("")
    /\ request.event = "APPROVE"
    /\ "comments" \notin DOMAIN request
    /\ currentSha = Undefined /\ baseSha = Undefined
    /\ previousCache = Null
    /\ diff = <<>> /\ llmComments = <<>> /\ mapped = <<>>
    /\ cacheFile = cacheAtStart

\* --approve has posted its review over a cache that holds open comments
C17_Witness ==
  /\ mode = "approve"
  /\ lastCall = "reviewPosted"
  /\ loadReviewCache(cacheFile) # Null
  /\ Len(loadReviewCache(cacheFile).previous_comments) > 0

(***************************************************************************)
(* Further properties of mapCommentsToDiff, checked under SpecMatch        *)
(***************************************************************************)
\* is annotation c matched by one of the added lines
mappable(lines, c) ==
  \E n \in 1..Len(lines) : hitTable[<<lines[n].content, c>>]

\* C16: mapCommentsToDiff returns, for every diff and answer, one comment for
\* each annotation some added line matches, in the order of the annotations
\* and with the body of its annotation, and none for the others, which it
\* reports; an annotation without a match does not stop the later ones.
C16_UnmatchedAnnotationsAreDropped ==
  pc = "mapped" =>
    LET lines == addedLinesOf(parse(diff))
        hit == {i \in 1..Len(llmComments) : mappable(lines, llmComments[i])}
    IN  /\ Len(mapped) = Cardinality(hit)
        /\ Len(mapped) <= Len(llmComments)
        /\ mapped = flatten([i \in 1..Len(llmComments) |->
                               IF i \in hit THEN pushed[i] ELSE <<>>])
        /\ \A i \in hit :
             Len(pushed[i]) = 1 /\ pushed[i][1].body = bodyOf(llmComments[i])
        /\ warned = flatten([i \in 1..Len(llmComments) |->
                               IF i \in hit THEN <<>>
                               ELSE <<llmComments[i].context>>])

\* the first annotation matches no line and is reported, the second is mapped
C16_Witness ==
  /\ pc = "mapped"
  /\ diff = <<EntryFile, EntryChange("add", "txtCall")>>
  /\ llmComments = <<annShortMarker, annCall>>
  /\ warned = <<"ctxShortMarker">>
  /\ Len(mapped) = 1
  /\ mapped[1].body = bodyOf(annCall)
  /\ mapped[1].line = 1

SeedSha == 1
SeedState == [last_commit |-> SeedSha, previous_comments |-> <<>>]

\* submitReview of part_000: the payload handed to axios.post
submitReview0(mappedComments, m) ==
  LET payload ==
        [event |-> m,
         body |-> IF m = "APPROVE"
                  THEN "Automated review: All previous issues are resolved. Approving PR."
                  ELSE "Automated PR review found critical issues. See inline comments."]
  IN  IF (m = "REQUEST_CHANGES" \/ m = "COMMENT") /\ Len(mappedComments) > 0
      THEN payload @@ ("comments" :> mappedComments)
      ELSE payload

\* main of part_000 after mapCommentsToDiff: the state saved, then the call
\* made (undefined is passed as the empty list)
decide0(prior, comments, sha) ==
  IF prior = Null
  THEN [cache |-> [last_commit |-> sha, previous_comments |-> comments],
        call |-> callSubmitReview(comments,
                                  IF Len(comments) > 0 THEN "REQUEST_CHANGES"
                                  ELSE "APPROVE")]
  ELSE LET relevantFixes == relevantFixesOf(prior, comments)
       IN  IF Len(relevantFixes) = 0
           THEN [cache |-> [last_commit |-> sha, previous_comments |-> <<>>],
                 call |-> callSubmitReview(<<>>, "APPROVE")]
           ELSE [cache |-> [last_commit |-> sha,
                            previous_comments |-> relevantFixes],
                 call |-> callSubmitReview(relevantFixes, "REQUEST_CHANGES")]

\* main(), which awaits getPrDetails()
StartFull0 ==
  /\ Begin("full0", "getPrDetails")
  /\ outcome' = "running"
  /\ mapped' = <<>>
  /\ reqArgs' = NoCall /\ request' = NoPayload
  /\ calls' = <<"getPrDetails">>
  /\ collected' = NotCollected
  /\ UNCHANGED <<storage, durable>>

\* getPrDetails returns; saveReviewCache({ last_commit: '954e...', ... })
GetPrDetailsOk0 ==
  /\ pc = "getPrDetails"
  /\ mode = "full0"
  /\ currentSha' = head
  /\ prBaseSha' = BaseSha
  /\ cacheFile' = saveReviewCache(SeedState)
  /\ pc' = "loadReviewCache"
  /\ calls' = calls \o <<"saveReviewCache", "loadReviewCache">>
  /\ UNCHANGED <<storage, head, artifact, mode, outcome, previousCache,
                 baseSha, pipeline, submission, cacheAtStart, collected>>

\* loadReviewCache returns and the base of the diff is chosen
LoadCache0 ==
  /\ pc = "loadReviewCache"
  /\ mode = "full0"
  /\ previousCache' = loadReviewCache(cacheFile)
  /\ LET sel == selectBase(previousCache', currentSha, prBaseSha)
     IN  /\ baseSha' = sel.baseSha
         /\ pc' = IF sel.skip THEN "done" ELSE "getDiff"
         /\ outcome' = IF sel.skip THEN "returned" ELSE outcome
         /\ calls' = IF sel.skip THEN calls
                     ELSE Append(calls, "getDiffFromCommits")
  /\ UNCHANGED <<storage, durable, mode, currentSha, prBaseSha, pipeline,
                 submission, cacheAtStart, collected>>

\* the answer arrives: map, decide, save the cache, post the review
LlmOk0 ==
  /\ pc = "llm"
  /\ mode = "full0"
  /\ \E answer \in DriverAnswers :
       /\ llmComments' = answer
       /\ pushed' = pushesOf(parse(diff), answer)
       /\ warned' = warningsOf(pushed', answer)
       /\ mapped' = flatten(pushed')
  /\ LET plan == decide0(previousCache, mapped', currentSha)
     IN  /\ cacheFile' = saveReviewCache(plan.cache)
         /\ reqArgs' = plan.call
         /\ request' = submitReview0(plan.call.mappedComments, plan.call.mode)
  /\ calls' = calls \o <<"saveReviewCache", "postReview">>
  /\ pc' = "post"
  /\ UNCHANGED <<storage, head, artifact, mode, outcome, locals, diff,
                 cacheAtStart, collected>>

Next0 ==
  \/ Push
  \/ StartFull0
  \/ GetPrDetailsOk0 \/ GetPrDetailsFail
  \/ LoadCache0
  \/ GetDiffOk \/ GetDiffFail
  \/ LlmOk0 \/ LlmFail \/ LlmMalformed
  \/ PostOk \/ PostFail

SpecPart0 == Init /\ [][Next0]_vars

\* C19: a run of main of part_000 started with no cache file loads no state
\* and fetches the diff from the commit of the base branch, and writes no
\* cache before loadReviewCache.
C19_NoRecordIsFirstReview ==
  (/\ mode = "full0"
   /\ cacheAtStart = MissingFile
   /\ pc \notin {"getPrDetails", "loadReviewCache"}
   /\ lastCall # "failed:getPrDetails") =>
    /\ previousCache = Null
    /\ called("getDiffFromCommits")
    /\ baseSha = BaseSha
    /\ calls[2] = "loadReviewCache"

(***************************************************************************)
(* Properties of the candidate phrases, checked under SpecMatch            *)
(***************************************************************************)
\* C20: for an annotation whose context holds '{ ... }' the phrases matched
\* against the diff are one phrase, the trimmed lower-case context without
\* the marker, and no phrase holds the marker.
C20_MarkerContextHasOnePhrase ==
  pc = "mapped" =>
    \A i \in 1..Len(llmComments) :
      includes(codeContextOf(llmComments[i]), Marker) =>
        /\ sortedKeyPhrases(llmComments[i]) =
             <<trim(replaceFirst(codeContextOf(llmComments[i]), Marker, <<>>))>>
        /\ \A n \in 1..Len(sortedKeyPhrases(llmComments[i])) :
             ~includes(sortedKeyPhrases(llmComments[i])[n], Marker)

\* C21: for an annotation whose trimmed lower-case context has at most 30
\* characters and no '{ ... }', the phrases matched against the diff are one
\* phrase, the whole context, and the comment pushed for it is on an added
\* line whose trimmed lower-case content holds the whole context.
C21_ShortContextIsTheOnlyPhrase ==
  pc = "mapped" =>
    LET lines == addedLinesOf(parse(diff))
    IN  \A i \in 1..Len(llmComments) :
          LET codeContext == codeContextOf(llmComments[i])
          IN  (Len(codeContext) <= ContextLimit /\ ~includes(codeContext, Marker)) =>
                /\ sortedKeyPhrases(llmComments[i]) = <<codeContext>>
                /\ \A m \in 1..Len(pushed[i]) :
                     \E n \in 1..Len(lines) :
                       /\ lines[n].path = pushed[i][m].path
                       /\ lines[n].line = pushed[i][m].line
                       /\ includes(lineContentOf(lines[n].content), codeContext)


\* for (const phrase of keyPhrases) { if (phrase && lineContent.includes(
\* phrase)) { ...; break } }: the phrase the loop stops on, <<>> if none
firstPhraseFound(lineContent, keyPhrases) ==
  LET found == {a \in 1..Len(keyPhrases) :
                  keyPhrases[a] # <<>> /\ includes(lineContent, keyPhrases[a])}
  IN  IF found = {} THEN <<>>
      ELSE keyPhrases[CHOOSE a \in found : \A b \in found : a <= b]

\* C22: on every added line the phrases of an annotation are tested from the
\* longest to the shortest, every phrase is its own trimmed lower-case form
\* (as the line it is searched in is), and when two phrases, one inside the
\* other, both stand on the line, the loop stops on a phrase at least as long
\* as the longer of the two.
C22_LongestNormalizedPhraseFirst ==
  pc = "mapped" =>
    LET lines == addedLinesOf(parse(diff))
    IN  \A i \in 1..Len(llmComments) :
          LET keyPhrases == sortedKeyPhrases(llmComments[i])
          IN  /\ \A a, b \in 1..Len(keyPhrases) :
                   a < b => Len(keyPhrases[a]) >= Len(keyPhrases[b])
              /\ \A a \in 1..Len(keyPhrases) :
                   keyPhrases[a] = toLowerCase(trim(keyPhrases[a]))
              /\ \A n \in 1..Len(lines) :
                   LET lineContent == lineContentOf(lines[n].content)
                   IN  \A a, b \in 1..Len(keyPhrases) :
                         ( /\ keyPhrases[b] # <<>>
                           /\ includes(keyPhrases[a], keyPhrases[b])
                           /\ includes(lineContent, keyPhrases[a])
                           /\ includes(lineContent, keyPhrases[b]) ) =>
                           Len(firstPhraseFound(lineContent, keyPhrases))
                             >= Len(keyPhrases[a])

(***************************************************************************)
(* Two processes run main (part_001) for one pull request at the same      *)
(* time.  Each has its own locals; the head of the pull request and the    *)
(* cache file are shared.  A process gives way to the other at its awaits: *)
(* getPrDetails, the readFile of loadReviewCache, getDiffFromCommits,      *)
(* generateCommentsFromLLM and the post of the review.                     *)
(***************************************************************************)
\* the diff and the LLM answers of the concurrent runs: no comment, one,
\* or two
RaceDiffs ==
  {<<EntryFile, EntryChange("add", "txtCall"), EntryChange("add", "txtUser")>>}
RaceAnswers == {<<>>, <<annCall>>, <<annCall, annLongMarker>>}

\* the states a first review of commit 1 saves
ReviewedOnce ==
  {firstReview(mapCommentsToDiff(d, a), 1).cache :
     d \in RaceDiffs, a \in RaceAnswers}

RaceInit ==
  /\ head \in Commits
  /\ cacheFile \in UnusableFiles \cup {saveReviewCache(st) : st \in ReviewedOnce}
  /\ artifact = MissingFile
  /\ cacheAtStart = cacheFile
  /\ OneKey
  /\ mode = "race" /\ pc = "idle" /\ outcome = "none"
  /\ currentSha = Undefined /\ prBaseSha = Undefined
  /\ previousCache = Null /\ baseSha = Undefined
  /\ calls = <<>>
  /\ collected = NotCollected
  /\ NoPipeline
  /\ reqArgs = NoCall /\ request = NoPayload

\* what a step of a concurrent run leaves alone
RaceFrame ==
  UNCHANGED <<artifact, mode, pc, outcome, locals, pipeline, submission, calls,
              cacheAtStart, collected, disk, env, todos, idCounter, req, res,
              deletedIds>>

\* a commit is pushed while a run waits for getPrDetails, the one place
\* where a run reads the head
RacePush ==
  /\ \E p \in Procs : runs[p].pc = "getPrDetails"
  /\ \E c \in Commits \ {head} : head' = c
  /\ UNCHANGED <<cacheFile, saved, runs>>
  /\ RaceFrame

\* await main(), which awaits getPrDetails()
RaceStart(p) ==
  /\ runs[p].pc = "idle"
  /\ runs' = [runs EXCEPT ![p].pc = "getPrDetails", ![p].outcome = "running"]
  /\ UNCHANGED <<head, cacheFile, saved>>
  /\ RaceFrame

\* const prDetails = await getPrDetails(); loadReviewCache() is called and
\* runs up to fs.existsSync
RaceGetPrDetails(p) ==
  /\ runs[p].pc = "getPrDetails"
  /\ runs' = [runs EXCEPT ![p].currentSha = head, ![p].prBaseSha = BaseSha,
                          ![p].pc = "loadReviewCache"]
  /\ UNCHANGED <<head, cacheFile, saved>>
  /\ RaceFrame

\* the run goes on after loadReviewCache returned previous
afterLoad(run, previous, writes) ==
  LET sel == selectBase(previous, run.currentSha, run.prBaseSha)
  IN  [run EXCEPT !.previousCache = previous,
                  !.baseSha = sel.baseSha,
                  !.loadedAfter = writes,
                  !.pc = IF sel.skip THEN "done" ELSE "getDiff",
                  !.outcome = IF sel.skip THEN "returned" ELSE run.outcome]

\* a loadReviewCache that waits while another run is between its load and
\* its save
RaceLoadLocked(p) ==
  /\ runs[p].pc = "loadReviewCache"
  /\ \A q \in Procs \ {p} : runs[q].pc \notin {"readFile", "getDiff", "llm"}
  /\ runs' = [runs EXCEPT ![p] =
                IF cacheFile.exists THEN [runs[p] EXCEPT !.pc = "readFile"]
                ELSE afterLoad(runs[p], Null, Len(saved))]
  /\ UNCHANGED <<head, cacheFile, saved>>
  /\ RaceFrame

\* loadReviewCache: if (fs.existsSync(fileName)) await fs.promises.readFile;
\* without the file it returns null
RaceLoad(p) ==
  /\ runs[p].pc = "loadReviewCache"
  /\ runs' = [runs EXCEPT ![p] =
                IF cacheFile.exists THEN [runs[p] EXCEPT !.pc = "readFile"]
                ELSE afterLoad(runs[p], Null, Len(saved))]
  /\ UNCHANGED <<head, cacheFile, saved>>
  /\ RaceFrame

\* readFile resolves with what the file holds now; loadReviewCache returns
RaceReadFile(p) ==
  /\ runs[p].pc = "readFile"
  /\ runs' = [runs EXCEPT ![p] =
                afterLoad(runs[p], loadReviewCache(cacheFile), Len(saved))]
  /\ UNCHANGED <<head, cacheFile, saved>>
  /\ RaceFrame

\* const diff = await getDiffFromCommits(baseSha, currentSha)
RaceGetDiff(p) ==
  /\ runs[p].pc = "getDiff"
  /\ \E d \in RaceDiffs :
       runs' = [runs EXCEPT ![p].diff = d, ![p].pc = "llm"]
  /\ UNCHANGED <<head, cacheFile, saved>>
  /\ RaceFrame

\* the answer arrives: map, decide, saveReviewCache (fs.writeFileSync), and
\* the review is posted
RaceLlmOk(p) ==
  /\ runs[p].pc = "llm"
  /\ \E answer \in RaceAnswers :
       LET comments == mapCommentsToDiff(runs[p].diff, answer)
           plan == decide(runs[p].previousCache, comments, runs[p].currentSha)
       IN  /\ cacheFile' = saveReviewCache(plan.cache)
           /\ saved' = Append(saved, [key |-> env, data |-> plan.cache])
           /\ runs' = [runs EXCEPT ![p].mapped = comments,
                                   ![p].request = payloadOf(plan.call),
                                   ![p].pc = "post"]
  /\ UNCHANGED head
  /\ RaceFrame

\* axios.post resolves
RacePostOk(p) ==
  /\ runs[p].pc = "post"
  /\ runs' = [runs EXCEPT ![p].pc = "done", ![p].outcome = "returned"]
  /\ UNCHANGED <<head, cacheFile, saved>>
  /\ RaceFrame

\* an awaited call throws and main catches
RaceFail(p) ==
  /\ runs[p].pc \in {"getPrDetails", "getDiff", "llm", "post"}
  /\ runs' = [runs EXCEPT ![p].pc = "done", ![p].outcome = "caught"]
  /\ UNCHANGED <<head, cacheFile, saved>>
  /\ RaceFrame

SpecRace ==
  /\ RaceInit
  /\ [][\/ RacePush
        \/ \E p \in Procs : RaceStart(p)
        \/ \E p \in Procs : RaceGetPrDetails(p)
        \/ \E p \in Procs : RaceLoad(p)
        \/ \E p \in Procs : RaceReadFile(p)
        \/ \E p \in Procs : RaceGetDiff(p)
        \/ \E p \in Procs : RaceLlmOk(p)
        \/ \E p \in Procs : RacePostOk(p)
        \/ \E p \in Procs : RaceFail(p)]_vars

\* C23: nothing in main makes a run wait for another run of the same pull
\* request: a run whose turn it is to load the cache or to save it can do so
\* wherever the other run stands; each run saves the state decided from what
\* it loaded, even when the file was written since; and the file holds the
\* state saved last.
C23_RunsDoNotWaitForEachOther ==
  /\ \A p \in Procs :
       /\ runs[p].pc = "loadReviewCache" => ENABLED RaceLoad(p)
       /\ runs[p].pc = "readFile" => ENABLED RaceReadFile(p)
       /\ runs[p].pc = "llm" => ENABLED RaceLlmOk(p)
       /\ runs[p].request # NoPayload =>
            \E i \in (runs[p].loadedAfter + 1)..Len(saved) :
              saved[i].data = decide(runs[p].previousCache, runs[p].mapped,
                                     runs[p].currentSha).cache
  /\ saved # <<>> => loadReviewCache(cacheFile) = saved[Len(saved)].data

\* both runs loaded the same state with an open comment before either
\* saved, both posted a review of the same head, one requesting changes and
\* one approving, and the file holds the state saved second
C23_Witness ==
  /\ \A p \in Procs : runs[p].pc = "done" /\ runs[p].outcome = "returned"
  /\ runs["A"].previousCache = runs["B"].previousCache
  /\ runs["A"].previousCache # Null
  /\ Len(runs["A"].previousCache.previous_comments) > 0
  /\ runs["A"].loadedAfter = 0 /\ runs["B"].loadedAfter = 0
  /\ runs["A"].currentSha = runs["B"].currentSha
  /\ runs["A"].request.event = "REQUEST_CHANGES"
  /\ runs["B"].request.event = "APPROVE"
  /\ Len(saved) = 2
  /\ saved[1].data # saved[2].data
  /\ loadReviewCache(cacheFile) = saved[2].data

(***************************************************************************)
(* Properties of successive runs on one pull request, checked under Spec   *)
(***************************************************************************)
\* C24: when a full-cycle run that loaded a state has saved, the (path, line)
\* pairs of the state it saved are among those of the state the run before
\* it left in the file; so when that state held no comment, the run saves a
\* state without comments and its review is APPROVE without comments,
\* whatever the LLM returned.
C24_OpenSetNeverGrows ==
  (ReReviewRun /\ called("saveReviewCache")) =>
    LET before == loadReviewCache(cacheAtStart)
        after == loadReviewCache(cacheFile)
    IN  /\ before # Null /\ after # Null
        /\ anchorSetOf(after.previous_comments)
             \subseteq anchorSetOf(before.previous_comments)
        /\ before.previous_comments = <<>> =>
             /\ after.previous_comments = <<>>
             /\ after.last_commit = currentSha
             /\ request.event = "APPROVE"
             /\ "comments" \notin DOMAIN request

\* the state left by the run before held no comment, the LLM answer of this
\* run was mapped to two lines, and the review posted is an approval
C24_Witness ==
  /\ ReReviewRun
  /\ pc = "done" /\ outcome = "returned"
  /\ loadReviewCache(cacheAtStart).previous_comments = <<>>
  /\ loadReviewCache(cacheAtStart).last_commit # currentSha
  /\ Len(mapped) = 2
  /\ request.event = "APPROVE"
  /\ loadReviewCache(cacheFile).previous_comments = <<>>

(***************************************************************************)
(* The todo server (src/server.js): an in-memory list behind five routes.  *)
(* A request body is a function from the keys it holds to their values.    *)
(***************************************************************************)
\* the ids POST /todos may hand out in the model
MaxTodoId == 3

\* the decimal value of a run of digits
RECURSIVE digitsValue(_)
digitsValue(ds) ==
  IF ds = <<>> THEN 0
  ELSE 10 * digitsValue(SubSeq(ds, 1, Len(ds) - 1))
         + (CHOOSE n \in 0..9 : ToString(n) = ds[Len(ds)])

\* parseInt(req.params.id): white space is skipped, a sign is taken, then
\* the longest run of digits; NaN without a digit
parseInt(s) ==
  LET start == runEnd(s, 1, clsSpace)
      signed == charAt(s, start) \in {"+", "-"}
      first == IF signed THEN start + 1 ELSE start
      last == runEnd(s, first, [neg |-> FALSE, set |-> DigitChars])
      value == digitsValue(SubSeq(s, first, last - 1))
  IN  IF last = first THEN [isNaN |-> TRUE, value |-> 0]
      ELSE [isNaN |-> FALSE,
            value |-> IF charAt(s, start) = "-" THEN 0 - value ELSE value]

\* todos.findIndex(t => t.id === parseInt(req.params.id)): 0 stands for -1
findIndex(list, id) ==
  LET n == parseInt(id)
      hits == {i \in 1..Len(list) : ~n.isNaN /\ list[i].id = n.value}
  IN  IF hits = {} THEN 0 ELSE CHOOSE i \in hits : \A j \in hits : i <= j

\* the values of :id in the requests of the model
IdParams ==
  {<<ToString(n)>> : n \in 1..(MaxTodoId + 1)}
    \cup {<<"x">>, <<"2", "x">>, <<" ", "1">>}

\* the bodies of POST /todos: no title, an empty title, a title
PostBodies == {<<>>, "title" :> "", "title" :> "a", "title" :> "b"}
\* the bodies of PUT /todos/:id
PutBodies ==
  {"title" :> "b", "completed" :> TRUE,
   ("title" :> "a") @@ ("completed" :> FALSE)}

\* if (!title): undefined and '' are falsy
falsy(body, key) == key \notin DOMAIN body \/ body[key] = ""

NotFound == [status |-> 404, error |-> "Todo not found"]

\* what a request to the todo server leaves alone
ServerFrame ==
  UNCHANGED <<durable, mode, pc, outcome, locals, pipeline, submission, calls,
              cacheAtStart, collected, disk, env, saved, runs>>

TodoInit ==
  /\ Pinned
  /\ mode = "server" /\ pc = "listening"
  /\ NoPipeline
  /\ reqArgs = NoCall /\ request = NoPayload

\* a POST /todos that takes the next id before it looks at the title
PostTodosCountingFirst ==
  /\ \E body \in PostBodies :
       /\ req' = [method |-> "POST", id |-> <<>>, body |-> body]
       /\ idCounter <= MaxTodoId
       /\ idCounter' = idCounter + 1
       /\ IF falsy(body, "title")
          THEN /\ res' = [status |-> 400, error |-> "Title is required"]
               /\ UNCHANGED todos
          ELSE LET todo == [id |-> idCounter, title |-> body.title,
                            completed |-> FALSE]
               IN  /\ todos' = Append(todos, todo)
                   /\ res' = [status |-> 201, todo |-> todo]
  /\ UNCHANGED deletedIds
  /\ ServerFrame

\* a POST /todos that numbers the new todo by the length of the list
PostTodosByLength ==
  /\ \E body \in PostBodies :
       /\ req' = [method |-> "POST", id |-> <<>>, body |-> body]
       /\ IF falsy(body, "title")
          THEN /\ res' = [status |-> 400, error |-> "Title is required"]
               /\ UNCHANGED <<todos, idCounter>>
          ELSE LET todo == [id |-> Len(todos) + 1, title |-> body.title,
                            completed |-> FALSE]
               IN  /\ idCounter <= MaxTodoId
                   /\ todos' = Append(todos, todo)
                   /\ idCounter' = idCounter + 1
                   /\ res' = [status |-> 201, todo |-> todo]
  /\ UNCHANGED deletedIds
  /\ ServerFrame

\* app.post('/todos', ...)
PostTodos ==
  /\ \E body \in PostBodies :
       /\ req' = [method |-> "POST", id |-> <<>>, body |-> body]
       /\ IF falsy(body, "title")
          THEN /\ res' = [status |-> 400, error |-> "Title is required"]
               /\ UNCHANGED <<todos, idCounter>>
          ELSE LET todo == [id |-> idCounter, title |-> body.title,
                            completed |-> FALSE]
               IN  /\ idCounter <= MaxTodoId
                   /\ todos' = Append(todos, todo)
                   /\ idCounter' = idCounter + 1
                   /\ res' = [status |-> 201, todo |-> todo]
  /\ UNCHANGED deletedIds
  /\ ServerFrame

\* app.get('/todos', ...)
GetTodos ==
  /\ req' = [method |-> "GET", id |-> <<>>, body |-> <<>>]
  /\ res' = [status |-> 200, todos |-> todos]
  /\ UNCHANGED <<todos, idCounter, deletedIds>>
  /\ ServerFrame

\* app.get('/todos/:id', ...)
GetTodo ==
  /\ \E id \in IdParams :
       /\ req' = [method |-> "GET", id |-> id, body |-> <<>>]
       /\ res' = IF findIndex(todos, id) = 0 THEN NotFound
                 ELSE [status |-> 200, todo |-> todos[findIndex(todos, id)]]
  /\ UNCHANGED <<todos, idCounter, deletedIds>>
  /\ ServerFrame

\* app.put('/todos/:id', ...)
PutTodo ==
  /\ \E id \in IdParams, body \in PutBodies :
       /\ req' = [method |-> "PUT", id |-> id, body |-> body]
       /\ LET index == findIndex(todos, id)
          IN  IF index = 0
              THEN /\ res' = NotFound
                   /\ UNCHANGED todos
              ELSE LET todo ==
                         [todos[index] EXCEPT
                            !.title = IF "title" \in DOMAIN body
                                      THEN body.title ELSE @,
                            !.completed = IF "completed" \in DOMAIN body
                                          THEN body.completed ELSE @]
                   IN  /\ todos' = [todos EXCEPT ![index] = todo]
                       /\ res' = [status |-> 200, todo |-> todo]
  /\ UNCHANGED <<idCounter, deletedIds>>
  /\ ServerFrame

\* app.delete('/todos/:id', ...)
DeleteTodo ==
  /\ \E id \in IdParams :
       /\ req' = [method |-> "DELETE", id |-> id, body |-> <<>>]
       /\ LET index == findIndex(todos, id)
          IN  IF index = 0
              THEN /\ res' = NotFound
                   /\ UNCHANGED <<todos, deletedIds>>
              ELSE /\ todos' = SubSeq(todos, 1, index - 1)
                                 \o SubSeq(todos, index + 1, Len(todos))
                   /\ deletedIds' = deletedIds \cup {todos[index].id}
                   /\ res' = [status |-> 200, message |-> "Todo deleted",
                              todo |-> todos[index]]
  /\ UNCHANGED idCounter
  /\ ServerFrame

SpecTodo ==
  TodoInit /\ [][PostTodos \/ GetTodos \/ GetTodo \/ PutTodo \/ DeleteTodo]_vars

(***************************************************************************)
(* Properties of the todo server, checked under SpecTodo                   *)
(***************************************************************************)
\* C25: after any requests the stored todos have pairwise different ids,
\* every stored id is below idCounter, and no stored todo has the id of a
\* todo that was deleted.
C25_IdsAreUniqueAndFresh ==
  /\ \A i, j \in 1..Len(todos) : i # j => todos[i].id # todos[j].id
  /\ \A i \in 1..Len(todos) :
       /\ todos[i].id < idCounter
       /\ todos[i].id \notin deletedIds

\* todo 2 was deleted, todo 1 was updated, and a todo created after that is
\* stored with id 3
C25_Witness ==
  /\ req.method = "POST" /\ res.status = 201
  /\ deletedIds = {2}
  /\ Len(todos) = 2
  /\ todos[1].id = 1 /\ todos[1].completed
  /\ todos[2].id = 3
  /\ idCounter = 4

\* is no todo stored under the id a request names
notStored(list, id) ==
  \/ parseInt(id).isNaN
  \/ \A i \in 1..Len(list) : list[i].id # parseInt(id).value

\* C26: a POST /todos whose body has no title is answered 400, a GET, PUT or
\* DELETE of /todos/:id whose id no stored todo has is answered 404, and a
\* request answered 400 or 404 changes neither todos nor idCounter.
C26_RejectedRequestsChangeNothing ==
  [][/\ (req'.method = "POST" /\ falsy(req'.body, "title")) =>
          res'.status = 400
     /\ (req'.method \in {"GET", "PUT", "DELETE"} /\ req'.id # <<>>
           /\ notStored(todos, req'.id)) =>
          res'.status = 404
     /\ res'.status \in {400, 404} =>
          (todos' = todos /\ idCounter' = idCounter)]_vars

\* a PUT names the id of a todo that was deleted while another is stored,
\* and is answered 404
C26_Witness ==
  /\ req.method = "PUT"
  /\ res = NotFound
  /\ ~parseInt(req.id).isNaN
  /\ parseInt(req.id).value \in deletedIds
  /\ "title" \in DOMAIN req.body
  /\ Len(todos) = 1
  /\ idCounter = 3

=============================================================================
